---- MODULE Spec2Model ----
(***************************************************************************)
(* A model of muse.constraints (src/src/muse/constraints.py): the          *)
(* standardizing wrapper of register_constraints, the constraint factory,  *)
(* the max_capacity_expansion generator, the lp_constraint_matrix          *)
(* compiler, merge_lp and scipy_adapter.                                   *)
(* Each part of the pipeline is a pure function of its inputs;             *)
(* each has a specification of its own whose Init draws the inputs from    *)
(* bounded sets and whose action applies the function as the code does.    *)
(***************************************************************************)
EXTENDS Integers, Sequences, FiniteSets, TLC

VARIABLES
    pc,          \* position of the call under study
    generated,   \* the Dataset the wrapped generator function returns
    returned,    \* outcome of register_constraints.decorated
    settings,    \* the configuration handed to factory
    closure,     \* the names/params cells captured by factory's inner function
    shared,      \* **kwargs of the call of the callable factory returned
    built,       \* outcome of that call
    techs,       \* technology limits of one replacement technology
    capacity,    \* the agent's summed capacity at year and forecast year
    forecast,    \* the forecast horizon
    maxcap,      \* the Dataset max_capacity_expansion returns
    lpb,         \* argument b of lp_constraint_matrix
    lpconstraint,\* argument constraint of lp_constraint_matrix
    lpcosts,     \* argument lpcosts of lp_constraint_matrix
    lpmatrix,    \* the block lp_constraint_matrix returns
    given_costs, \* argument costs of scipy_adapter and of merge_lp
    constraints, \* the constraints handed to scipy_adapter and to merge_lp
    adapted,     \* the dict scipy_adapter returns
    flipped,     \* position of the constraint whose kind was then changed
    readapted,   \* the dict scipy_adapter returns for the changed list
    unified      \* the pair merge_lp returns

vars == <<pc, generated, returned, settings, closure, shared, built,
          techs, capacity, forecast, maxcap, lpb, lpconstraint, lpcosts, lpmatrix,
          given_costs, constraints, adapted, flipped, readapted, unified>>

wrapVars == <<generated, returned>>
factoryVars == <<settings, closure, shared, built>>
expansionVars == <<techs, capacity, forecast, maxcap>>
matrixVars == <<lpb, lpconstraint, lpcosts, lpmatrix>>
adapterVars == <<given_costs, constraints, adapted, flipped, readapted, unified>>

(***************************************************************************)
(* Bounds of the model.                                                    *)
(***************************************************************************)
MaxCoef == 2       \* scalar data values a generator may supply: 0..MaxCoef
MaxEntries == 2    \* longest sequence of mappings given to factory
MaxQty == 2        \* technology limits and capacities: 0..MaxQty
MaxForecast == 2   \* forecast horizons: 1..MaxForecast
AxisLen == 2       \* number of coordinate values of every axis

(***************************************************************************)
(* Generic helpers.                                                        *)
(***************************************************************************)
Range(s) == {s[i] : i \in DOMAIN s}

\* The partial functions from subsets of keys to vals: Python dicts.
Dicts(keys, vals) == UNION {[ks -> vals] : ks \in SUBSET keys}

\* {**d1, **d2}: the keys of both, d2 winning on collision.
DictMerge(d1, d2) == d2 @@ d1

\* The value no variable of an idle pipeline part is read for.
Unset == [unset |-> TRUE]

(***************************************************************************)
(* ConstraintKind and the Constraint record (a Dataset): data variables    *)
(* and attributes are dicts.                                               *)
(***************************************************************************)
ConstraintKind == {"EQUALITY", "UPPER_BOUND", "LOWER_BOUND"}

DataVarNames == {"capacity", "production", "b"}

Dataset(data_vars, attrs) == [data_vars |-> data_vars, attrs |-> attrs]

\* What a call gives back: a value, or the exception it raised.
Returns(value) == [raised |-> "none", arg |-> "", value |-> value]
Raises(exception, arg) == [raised |-> exception, arg |-> arg, value |-> Unset]

(***************************************************************************)
(* register_constraints.decorated: the standardizing steps applied to the  *)
(* Dataset the generator function returned.                                *)
(***************************************************************************)
DefaultKind(constraint) ==
    IF "kind" \notin DOMAIN constraint.attrs
    THEN Dataset(constraint.data_vars,
                 constraint.attrs @@ ("kind" :> "UPPER_BOUND"))
    ELSE constraint

\* InvalidFormat rejecting only a Dataset that holds no data variable at all.
InvalidFormatNoB(constraint) ==
    /\ "capacity" \notin DOMAIN constraint.data_vars
    /\ "production" \notin DOMAIN constraint.data_vars
    /\ "b" \notin DOMAIN constraint.data_vars

InvalidFormat(constraint) ==
    /\ "capacity" \notin DOMAIN constraint.data_vars
    /\ "production" \notin DOMAIN constraint.data_vars

\* DefaultVar with the default of b forgotten.
DefaultVarNoB(constraint, name) ==
    IF name \notin DOMAIN constraint.data_vars /\ name # "b"
    THEN Dataset(constraint.data_vars @@ (name :> 0), constraint.attrs)
    ELSE constraint

DefaultVar(constraint, name) ==
    IF name \notin DOMAIN constraint.data_vars
    THEN Dataset(constraint.data_vars @@ (name :> 0), constraint.attrs)
    ELSE constraint

Standardize(constraint) ==
    LET c1 == DefaultKind(constraint) IN
    IF InvalidFormat(c1)
    THEN Raises("RuntimeError", "Invalid constraint format")
    ELSE Returns(DefaultVar(DefaultVar(DefaultVar(c1, "capacity"),
                                       "production"), "b"))

\* The Datasets a generator function can return: any of capacity, production
\* and b present or missing, kind set or not.
GeneratorOutputs ==
    {Dataset(dv, at) : dv \in Dicts(DataVarNames, 0..MaxCoef),
                       at \in Dicts({"kind"}, ConstraintKind)}

WrapIdle == generated = Unset /\ returned = Unset

\* decorated(assets, search_space, market, technologies, **kwargs): calls the
\* generator function, standardizes what it returned.
Decorated ==
    /\ pc = "wrap"
    /\ returned' = Standardize(generated)
    /\ pc' = "wrapped"
    /\ UNCHANGED <<generated, factoryVars, expansionVars, matrixVars, adapterVars>>

(***************************************************************************)
(* The registry CONSTRAINTS and factory.                                   *)
(***************************************************************************)
\* Names registered by the three @register_constraints definitions.
CONSTRAINTS == {"max_capacity_expansion", "demand", "max_production"}

\* Names a configuration may hold: the registered ones and one that is not.
SettingNames == CONSTRAINTS \cup {"unregistered"}

\* Keys and values of the parameters stored in a configuration mapping, and
\* of the keyword arguments shared by one call of the built callable (its
\* own parameters assets, search_space, technologies, year cannot be among
\* the latter).
ParamKeys == {"forecast", "technologies"}
SharedKeys == {"forecast"}
ParamVals == {5, 10}

\* A mapping {name, **params}.
SettingMappings ==
    {("name" :> n) @@ p : n \in SettingNames, p \in Dicts(ParamKeys, ParamVals)}

\* The sequences of at most n such mappings.
SettingSequences(n) ==
    UNION {[1..m -> SettingMappings] : m \in 0..n}

\* The three forms of configuration: Text, Mapping, Sequence[Mapping].
TextSettings == {[form |-> "Text", value |-> n] : n \in SettingNames}
MappingSettings == {[form |-> "Mapping", value |-> m] : m \in SettingMappings}
SequenceSettings(n) ==
    {[form |-> "Sequence", value |-> q] : q \in SettingSequences(n)}

\* {k: v for k, v in settings.items() if k != "name"}
WithoutName(mapping) == [k \in DOMAIN mapping \ {"name"} |-> mapping[k]]

\* The body of factory: names and params are assigned in the Text and the
\* Mapping branch only.
FactoryCells(s) ==
    IF s.form = "Text"
    THEN [bound |-> TRUE, names |-> <<s.value>>, params |-> << <<>> >>]
    ELSE IF s.form = "Mapping"
    THEN [bound |-> TRUE, names |-> <<s.value["name"]>>,
          params |-> <<WithoutName(s.value)>>]
    ELSE [bound |-> FALSE, names |-> <<>>, params |-> <<>>]

\* Positional parameters of decorated, and the keywords the generator
\* functions accept besides them.
DecoratedPositional == <<"assets", "search_space", "market", "technologies">>
GeneratorKeywords == {"forecast", "interpolation"}

\* What the generator function of that name returns (its tensors stand as
\* scalars here), standardized by decorated.
GeneratorDataset(name) ==
    IF name = "max_capacity_expansion"
    THEN Dataset(("b" :> 1) @@ ("capacity" :> 1), ("kind" :> "UPPER_BOUND"))
    ELSE IF name = "demand"
    THEN Dataset(("b" :> 1) @@ ("production" :> 1), ("kind" :> "EQUALITY"))
    ELSE Dataset(("capacity" :> 1) @@ ("production" :> 1) @@ ("b" :> 0),
                 ("kind" :> "UPPER_BOUND"))

\* function(assets, search_space, market, technologies, **kwargs)
CallGenerator(name, kwargs) ==
    IF DOMAIN kwargs \subseteq GeneratorKeywords
    THEN Standardize(GeneratorDataset(name))
    ELSE Raises("TypeError", "unexpected keyword argument")

\* CONSTRAINTS[name](assets, search_space, technologies, year=year,
\*                   **{**param, **kwargs}): npos positional arguments and the
\* keywords are bound to decorated's parameters, then decorated runs.
CallDecorated(name, npos, keywords) ==
    LET filled == {DecoratedPositional[i] : i \in 1..npos}
        required == Range(DecoratedPositional) IN
    IF filled \cap DOMAIN keywords # {}
    THEN Raises("TypeError", "multiple values for argument")
    ELSE IF ~(required \subseteq filled \cup DOMAIN keywords)
    THEN Raises("TypeError", "missing required positional argument")
    ELSE CallGenerator(name,
            [k \in DOMAIN keywords \ required |-> keywords[k]])

\* One element of the list comprehension of factory.constraints.
CallEntry(name, param, kwargs) ==
    LET merged == DictMerge(param, kwargs) IN
    IF name \notin CONSTRAINTS
    THEN Raises("KeyError", name)
    ELSE IF "year" \in DOMAIN merged
    THEN Raises("TypeError", "multiple values for keyword argument")
    ELSE CallDecorated(name, 3, ("year" :> 2020) @@ merged)

\* The list comprehension, entry by entry: the first exception ends it.
RECURSIVE CallEntries(_, _, _, _)
CallEntries(cells, kwargs, i, acc) ==
    IF i > Len(cells.names) \/ i > Len(cells.params)
    THEN Returns(acc)
    ELSE LET r == CallEntry(cells.names[i], cells.params[i], kwargs) IN
         IF r.raised # "none" THEN r
         ELSE CallEntries(cells, kwargs, i + 1, Append(acc, r.value))

\* constraints(assets, search_space, technologies, year, **kwargs)
Constraints(cells, kwargs) ==
    IF ~cells.bound
    THEN Raises("NameError", "names")
    ELSE CallEntries(cells, kwargs, 1, <<>>)

FactoryIdle ==
    settings = Unset /\ closure = Unset /\ shared = Unset /\ built = Unset

\* factory(settings): returns the inner function with its cells.
Factory ==
    /\ pc = "factory"
    /\ closure' = FactoryCells(settings)
    /\ pc' = "made"
    /\ UNCHANGED <<settings, shared, built, wrapVars, expansionVars, matrixVars, adapterVars>>

\* The call of the callable factory returned.
Build ==
    /\ pc = "made"
    /\ built' = Constraints(closure, shared)
    /\ pc' = "built"
    /\ UNCHANGED <<settings, closure, shared, wrapVars, expansionVars, matrixVars, adapterVars>>


(***************************************************************************)
(* max_capacity_expansion, for one replacement technology (and region):    *)
(* every step of the code is elementwise over these axes.                  *)
(***************************************************************************)
Quantities == 0..MaxQty

\* techs: the three limits filter_input selects for the technology.
TechLimits ==
    [max_capacity_addition : Quantities, max_capacity_growth : Quantities,
     total_capacity_limit : Quantities]

\* capacity: the assets' capacity summed per technology and interpolated at
\* year and forecast_year; owned says whether the assets hold the technology.
Capacities == [owned : BOOLEAN, year : Quantities, forecast_year : Quantities]

\* .reindex_like(search_space.replacement, fill_value=0)
Reindexed(cap, when) == IF cap.owned THEN cap[when] ELSE 0

\* .clip(min=0)
ClipMin0(x) == IF x < 0 THEN 0 ELSE x

\* x.where(cond, other)
Where(x, cond, other) == IF cond THEN x ELSE other

AddCap(t, f) == t.max_capacity_addition * f

\* TotalCap with the clip at zero forgotten.
TotalCapUnclipped(t, cap) ==
    t.total_capacity_limit - Reindexed(cap, "forecast_year")

TotalCap(t, cap) ==
    ClipMin0(t.total_capacity_limit - Reindexed(cap, "forecast_year"))

GrowthCap(t, cap, f) ==
    Reindexed(cap, "year") * (t.max_capacity_growth * f + 1)
        - Reindexed(cap, "forecast_year")

\* ZeroCap keeping the addition bound alone.
ZeroCapAddOnly(t, cap, f) == AddCap(t, f)

ZeroCap(t, cap, f) ==
    Where(AddCap(t, f), AddCap(t, f) < TotalCap(t, cap), TotalCap(t, cap))

\* WithGrowth keeping the larger of the two bounds.
WithGrowthLarger(t, cap, f) ==
    Where(ZeroCap(t, cap, f), ZeroCap(t, cap, f) > GrowthCap(t, cap, f),
          GrowthCap(t, cap, f))

WithGrowth(t, cap, f) ==
    Where(ZeroCap(t, cap, f), ZeroCap(t, cap, f) < GrowthCap(t, cap, f),
          GrowthCap(t, cap, f))

ExpansionB(t, cap, f) ==
    Where(WithGrowth(t, cap, f), Reindexed(cap, "year") > 0, ZeroCap(t, cap, f))

\* The Dataset the generator function builds.
MaxCapacityExpansionDataset(t, cap, f) ==
    Dataset(("b" :> ExpansionB(t, cap, f)) @@ ("capacity" :> 1),
            ("kind" :> "UPPER_BOUND"))

ExpansionIdle ==
    techs = Unset /\ capacity = Unset /\ forecast = 0 /\ maxcap = Unset

\* max_capacity_expansion(assets, search_space, market, technologies,
\* forecast), as registered: the generator function under decorated.
MaxCapacityExpansion ==
    /\ pc = "expansion"
    /\ maxcap' = Standardize(MaxCapacityExpansionDataset(techs, capacity, forecast))
    /\ pc' = "expanded"
    /\ UNCHANGED <<techs, capacity, forecast, wrapVars, factoryVars, matrixVars, adapterVars>>


(***************************************************************************)
(* Named-axis tensors (xarray.DataArray): a set of axis names (dims), the  *)
(* coordinate values of each axis, and one value per index, an index       *)
(* giving every axis one of its coordinate values.  An axis name is a      *)
(* sequence of strings: <<"asset">> is asset, <<"d", "asset">> is          *)
(* d(asset), <<"c", "asset">> is c(asset).                                 *)
(***************************************************************************)
AxisNames == {<<"asset">>, <<"replacement">>}

\* f"d({k})" and f"c({k})"
D(k) == <<"d">> \o k
C(k) == <<"c">> \o k

\* sorted() over the axis names the model uses.
SortedAxes ==
    << <<"asset">>, <<"c", "asset">>, <<"c", "commodity">>,
       <<"c", "replacement">>, <<"commodity">>, <<"d", "asset">>,
       <<"d", "commodity">>, <<"d", "replacement">>, <<"replacement">> >>

Sorted(dims) == SelectSeq(SortedAxes, LAMBDA k : k \in dims)

\* The coordinate values of an axis of the merged problem.
Coordinate == [i \in 1..AxisLen |-> i]

\* The coordinate values an axis may hold before the coordinate systems are
\* unified: any selection of the values, in any order.
CoordinateChoices ==
    {s \in UNION {[1..n -> 1..AxisLen] : n \in 1..AxisLen} :
        \A p, q \in DOMAIN s : p # q => s[p] # s[q]}

\* The values of the entries of a coefficient tensor.
CoefVals == {-1, 2}

Restrict(f, ks) == [k \in ks |-> f[k]]

\* The indices over the axes ks with the coordinates coords.
IndicesOf(ks, coords) ==
    {i \in [ks -> UNION {Range(coords[k]) : k \in ks}] :
        \A k \in ks : i[k] \in Range(coords[k])}

Indices(da) == IndicesOf(da.dims, da.coords)

\* A dict held entry by entry.
Explicit(f) == f @@ <<>>

DataArray(dims, coords, values) ==
    [dims |-> dims, coords |-> Explicit(coords), values |-> values]

RECURSIVE SumOver(_, _)
SumOver(S, f) ==
    IF S = {} THEN 0
    ELSE LET x == CHOOSE y \in S : TRUE IN f[x] + SumOver(S \ {x}, f)

\* da.sum(ks): the axes ks are summed out.
SumDims(da, ks) ==
    LET keep == da.dims \ ks
        coords == Restrict(da.coords, keep) IN
    DataArray(keep, coords,
        Explicit([i \in IndicesOf(keep, coords) |->
            SumOver({j \in Indices(da) : Restrict(j, keep) = i}, da.values)]))

\* da.rename(ren), ren a dict from axis names to new names.
Renamed(ren, k) == IF k \in DOMAIN ren THEN ren[k] ELSE k

Rename(da, ren) ==
    LET dims == {Renamed(ren, k) : k \in da.dims}
        old(n) == CHOOSE k \in da.dims : Renamed(ren, k) = n
        coords == [n \in dims |-> da.coords[old(n)]] IN
    DataArray(dims, coords,
        Explicit([i \in IndicesOf(dims, coords) |->
            da.values[[k \in da.dims |-> i[Renamed(ren, k)]]]]))

\* da.expand_dims(new), new a dict from new axis names to their coordinates:
\* the values are replicated along the new axes.
ExpandDims(da, new) ==
    LET dims == da.dims \cup DOMAIN new
        coords == [k \in dims |->
                      IF k \in DOMAIN new THEN new[k] ELSE da.coords[k]] IN
    DataArray(dims, coords,
        [i \in IndicesOf(dims, coords) |-> da.values[Restrict(i, da.dims)]])

\* x * y: broadcast over the union of the axes; an axis of both is aligned on
\* the coordinate values both hold (xarray's inner join), in x's order.
Mul(x, y) ==
    LET dims == x.dims \cup y.dims
        coords == [k \in dims |->
                      IF k \in x.dims /\ k \in y.dims
                      THEN SelectSeq(x.coords[k],
                                     LAMBDA v : v \in Range(y.coords[k]))
                      ELSE IF k \in x.dims THEN x.coords[k] ELSE y.coords[k]] IN
    DataArray(dims, coords,
        [i \in IndicesOf(dims, coords) |->
            x.values[Restrict(i, x.dims)] * y.values[Restrict(i, y.dims)]])


(***************************************************************************)
(* lp_constraint_matrix(b, constraint, lpcosts).  Only the axes and the    *)
(* coordinates of b and lpcosts are read, so these two are shapes.         *)
(***************************************************************************)
Shape(dims, coords) == [dims |-> dims, coords |-> coords]

\* LpReduce summing out the axes of b as well.
LpReduceAlsoB(b, constraint, costs) ==
    SumDims(constraint, constraint.dims \ costs.dims)

\* result = constraint.sum(set(constraint.dims) - set(lpcosts.dims) - set(b.dims))
LpReduce(b, constraint, costs) ==
    SumDims(constraint, (constraint.dims \ costs.dims) \ b.dims)

\* result.rename({k: f"d({k})" for k in set(result.dims).intersection(lpcosts.dims)})
LpRenameD(result, costs) ==
    Rename(result, [k \in result.dims \cap costs.dims |-> D(k)])

\* result.rename({k: f"c({k})" for k in set(result.dims).intersection(b.dims)})
LpRenameC(result, b) ==
    Rename(result, [k \in result.dims \cap b.dims |-> C(k)])

\* LpExpandD expanding over every axis of lpcosts the constraint lacks, the
\* diagonal ones included, with the axis name left untagged.
LpExpandDUntagged(result, b, constraint, costs) ==
    LET expand == (costs.dims \ constraint.dims) \ b.dims IN
    ExpandDims(result, [n \in expand |-> costs.coords[n]])

\* expand = set(lpcosts.dims) - set(constraint.dims) - set(b.dims)
\* result.expand_dims({f"d({k})": lpcosts[k] for k in expand})
LpExpandD(result, b, constraint, costs) ==
    LET expand == (costs.dims \ constraint.dims) \ b.dims IN
    ExpandDims(result, [n \in {D(k) : k \in expand} |-> costs.coords[Tail(n)]])

\* LpExpandC keeping one point of every axis it adds.
LpExpandCOnePoint(result, b, constraint, costs) ==
    LET expand == (b.dims \ constraint.dims) \ costs.dims IN
    ExpandDims(result, [n \in {C(k) : k \in expand} |-> <<Head(b.coords[Tail(n)])>>])

\* expand = set(b.dims) - set(constraint.dims) - set(lpcosts.dims)
\* result.expand_dims({f"c({k})": b[k] for k in expand})
LpExpandC(result, b, constraint, costs) ==
    LET expand == (b.dims \ constraint.dims) \ costs.dims IN
    ExpandDims(result, [n \in {C(k) : k \in expand} |-> b.coords[Tail(n)]])

\* get_dimension(dim)
GetDimension(dim, b, constraint, costs) ==
    IF dim \in b.dims THEN b.coords[dim]
    ELSE IF dim \in costs.dims THEN costs.coords[dim]
    ELSE constraint.coords[dim]

\* DiagonalSubmat with ones in place of the identity.
DiagonalSubmatOnes(k, b, constraint, costs) ==
    LET labels == GetDimension(k, b, constraint, costs)
        dims == {C(k), D(k)}
        coords == [a \in dims |-> labels] IN
    DataArray(dims, coords, [i \in IndicesOf(dims, coords) |-> 1])

\* DataArray(eye(len(b[k])), coords={c(k): get_dimension(k),
\*           d(k): get_dimension(k)}, dims=(c(k), d(k)))
DiagonalSubmat(k, b, constraint, costs) ==
    LET n == Len(b.coords[k])
        labels == GetDimension(k, b, constraint, costs)
        pos(v) == CHOOSE p \in 1..n : labels[p] = v
        dims == {C(k), D(k)}
        coords == [a \in dims |-> labels] IN
    DataArray(dims, coords,
        Explicit([i \in IndicesOf(dims, coords) |->
            IF pos(i[C(k)]) = pos(i[D(k)]) THEN 1 ELSE 0]))

\* reduce(DataArray.__mul__, diagonal_submats), over a non-empty set of axes.
RECURSIVE DiagonalProduct(_, _, _, _)
DiagonalProduct(ks, b, constraint, costs) ==
    LET k == CHOOSE x \in ks : TRUE
        first == DiagonalSubmat(k, b, constraint, costs) IN
    IF ks = {k} THEN first
    ELSE Mul(first, DiagonalProduct(ks \ {k}, b, constraint, costs))

\* LpDiagonal multiplying by the identity of one diagonal axis only.
LpDiagonalOneAxis(result, b, constraint, costs) ==
    LET diag_dims == b.dims \cap costs.dims IN
    IF diag_dims # {}
    THEN Mul(result, DiagonalSubmat(CHOOSE k \in diag_dims : TRUE,
                                    b, constraint, costs))
    ELSE result

\* diag_dims = set(b.dims).intersection(lpcosts.dims)
\* if diag_dims: result = result * reduce(DataArray.__mul__, diagonal_submats)
LpDiagonal(result, b, constraint, costs) ==
    LET diag_dims == b.dims \cap costs.dims IN
    IF diag_dims # {}
    THEN Mul(result, DiagonalProduct(diag_dims, b, constraint, costs))
    ELSE result

LpConstraintMatrix(b, constraint, costs) ==
    LET reduced == LpReduce(b, constraint, costs)
        renamed == LpRenameC(LpRenameD(reduced, costs), b)
        expanded == LpExpandC(LpExpandD(renamed, b, constraint, costs),
                              b, constraint, costs) IN
    LpDiagonal(expanded, b, constraint, costs)

\* The shapes and tensors of the merged problem: every axis holds the
\* coordinate values of the merged coordinate system.
Shapes == {Shape(ks, [k \in ks |-> Coordinate]) : ks \in SUBSET AxisNames}

DataArraysOver(shape) ==
    {DataArray(shape.dims, shape.coords, v) : v \in [Indices(shape) -> CoefVals]}

\* The scalar 0 decorated gives a missing capacity or production.
ScalarZero == DataArray({}, <<>>, [i \in {<<>>} |-> 0])

DataArrays == {ScalarZero} \cup UNION {DataArraysOver(sh) : sh \in Shapes}

MatrixIdle ==
    lpb = Unset /\ lpconstraint = Unset /\ lpcosts = Unset /\ lpmatrix = Unset

\* One call of lp_constraint_matrix.
CompileBlock ==
    /\ pc = "compile"
    /\ lpmatrix' = LpConstraintMatrix(lpb, lpconstraint, lpcosts)
    /\ pc' = "compiled"
    /\ UNCHANGED <<lpb, lpconstraint, lpcosts, wrapVars, factoryVars, expansionVars, adapterVars>>

(***************************************************************************)
(* Stacking, as DataArray.stack does: the indices over a sequence of axes  *)
(* in row-major order, and the 2-D matrix of a block over its c- and       *)
(* d-tagged axes.                                                          *)
(***************************************************************************)
RECURSIVE StackIndex(_, _)
StackIndex(coords, dimseq) ==
    IF dimseq = <<>> THEN << <<>> >>
    ELSE LET rest == StackIndex(coords, Tail(dimseq))
             n == Len(rest)
             cs == coords[Head(dimseq)] IN
         Explicit([p \in 1..(Len(cs) * n) |->
             (Head(dimseq) :> cs[((p - 1) \div n) + 1]) @@ rest[((p - 1) % n) + 1]])

IsCTagged(k) == Head(k) = "c"
IsDTagged(k) == Head(k) = "d"

\* stacked[d][c] of result.stack(d=sorted(decision_dims), c=sorted(constraint_dims))
Stacked(da) ==
    LET ddims == Sorted({k \in da.dims : IsDTagged(k)})
        cdims == Sorted({k \in da.dims : IsCTagged(k)})
        drows == StackIndex(da.coords, ddims)
        ccols == StackIndex(da.coords, cdims) IN
    [p \in 1..Len(drows) |-> [q \in 1..Len(ccols) |-> da.values[drows[p] @@ ccols[q]]]]

(***************************************************************************)
(* lp_costs, lp_constraint and xarray's merge.  The production decision    *)
(* variables range over asset, replacement and commodity; the timeslice    *)
(* axis is left out.  A value missing from an array (NaN) is an index of   *)
(* its coordinates outside the domain of its values.                       *)
(***************************************************************************)
MaxConstraints == 2   \* constraints handed to scipy_adapter and merge_lp

Commodity == <<"commodity">>
Asset == <<"asset">>
Replacement == <<"replacement">>

Scalar(v) == DataArray({}, <<>>, [i \in {<<>>} |-> v])

\* The merged coordinates of the axes dims, and the indices over them.
Coordinates(dims) == [k \in dims |-> Coordinate]
Entries(dims) == IndicesOf(dims, Coordinates(dims))

ZerosLike(da) == DataArray(da.dims, da.coords, [i \in DOMAIN da.values |-> 0])
OnesLike(da) == DataArray(da.dims, da.coords, [i \in DOMAIN da.values |-> 1])
Neg(da) ==
    DataArray(da.dims, da.coords, [i \in DOMAIN da.values |-> 0 - da.values[i]])

\* costs = search * arange(prod(search.shape)).reshape(search.shape): one
\* cost per asset and replacement.
Arange ==
    DataArray(AxisNames, Coordinates(AxisNames),
        [i \in Entries(AxisNames) |->
            (i[Asset] - 1) * AxisLen + (i[Replacement] - 1)])

\* technologies.fixed_outputs of the end-use commodities, technology renamed
\* replacement; only its axes are read.
FixedOutputs ==
    DataArray({Replacement, Commodity}, Coordinates({Replacement, Commodity}),
        [i \in Entries({Replacement, Commodity}) |-> 1])

\* lp_costs(technologies, costs, timeslices)
LpCosts(c) ==
    Dataset([capacity |-> c, production |-> ZerosLike(Mul(c, FixedOutputs))],
            <<>>)

\* lp_constraint(constraint, lpcosts)
LpConstraint(constraint, costs) ==
    LET b == constraint.data_vars.b IN
    Dataset(
        [b |-> Rename(b, [k \in b.dims |-> C(k)]),
         capacity |-> LpConstraintMatrix(b, constraint.data_vars.capacity,
                                         costs.data_vars.capacity),
         production |-> LpConstraintMatrix(b, constraint.data_vars.production,
                                           costs.data_vars.production)],
        constraint.attrs)

RECURSIVE SortedValues(_)
SortedValues(S) ==
    IF S = {} THEN <<>>
    ELSE LET m == CHOOSE x \in S : \A y \in S : x <= y IN
         <<m>> \o SortedValues(S \ {m})

\* The coordinates merge gives axis k: those every array holding the axis
\* has, when they all agree; else the sorted union (the outer join).
JoinedCoordinate(arrays, k) ==
    LET held == {arrays[n].coords[k] :
                    n \in {m \in DOMAIN arrays : k \in arrays[m].dims}} IN
    IF Cardinality(held) = 1 THEN CHOOSE cs \in held : TRUE
    ELSE SortedValues(UNION {Range(cs) : cs \in held})

\* Merge leaving every array on its own coordinates.
MergeKeepingCoordinates(arrays) ==
    arrays

\* merge(arrays), arrays a dict of named arrays: every array is reindexed to
\* the joined coordinates, its values kept where it had them.
Merge(arrays) ==
    LET axes == UNION {arrays[n].dims : n \in DOMAIN arrays}
        joined == Explicit([k \in axes |-> JoinedCoordinate(arrays, k)]) IN
    Explicit([n \in DOMAIN arrays |->
        DataArray(arrays[n].dims, Restrict(joined, arrays[n].dims),
                  arrays[n].values)])

(***************************************************************************)
(* The constraints handed to scipy_adapter: what the three registered      *)
(* generators give, under the kind the generator gives them or changed to  *)
(* a lower bound.  The right-hand side b has at least one axis.            *)
(***************************************************************************)
\* max_capacity_expansion: b over replacement, capacity 1, production 0.
MaxCapacityExpansionData ==
    [b |-> DataArray({Replacement}, Coordinates({Replacement}),
               [i \in Entries({Replacement}) |-> i[Replacement]]),
     capacity |-> Scalar(1),
     production |-> Scalar(0)]

\* demand: b over commodity, production 1; capacity defaults to 0.
DemandData ==
    [b |-> DataArray({Commodity}, Coordinates({Commodity}),
               [i \in Entries({Commodity}) |-> AxisLen + i[Commodity]]),
     capacity |-> Scalar(0),
     production |-> Scalar(1)]

\* max_production: capacity over asset, replacement and commodity, the same
\* for every asset; production = -ones_like(capacity); b = zeros_like(production).
MaxProductionData ==
    LET capa == ExpandDims(
                    DataArray({Replacement, Commodity},
                        Coordinates({Replacement, Commodity}),
                        [i \in Entries({Replacement, Commodity}) |->
                            (i[Replacement] - 1) * AxisLen + i[Commodity]]),
                    [k \in {Asset} |-> Coordinate])
        production == Neg(OnesLike(capa)) IN
    [b |-> ZerosLike(production), capacity |-> capa, production |-> production]

GeneratedConstraints ==
    {Dataset(MaxCapacityExpansionData, [kind |-> "UPPER_BOUND"]),
     Dataset(DemandData, [kind |-> "EQUALITY"]),
     Dataset(MaxProductionData, [kind |-> "UPPER_BOUND"])}

AdapterConstraints ==
    GeneratedConstraints
        \cup {[d EXCEPT !.attrs.kind = "LOWER_BOUND"] : d \in GeneratedConstraints}

ConstraintLists(n) == UNION {[1..m -> AdapterConstraints] : m \in 0..n}

(***************************************************************************)
(* scipy_adapter(technologies, costs, timeslices, *constraints).  The data *)
(* variables of the merged dataset are named by tuples: <<"capacity">> and *)
(* <<"production">> for the costs, <<"b", i>>, <<"capacity", i>> and       *)
(* <<"production", i>> for the i-th constraint, counted from 1.            *)
(***************************************************************************)
None == [none |-> TRUE]
NdArray(values) == [none |-> FALSE, values |-> values]

DataNames(n) ==
    {<<"capacity">>, <<"production">>}
        \cup {<<v, i>> : v \in DataVarNames, i \in 1..n}

\* lpcosts.rename({k: f"d({k})" for k in lpcosts.dims})
TagD(da) == Rename(da, [k \in da.dims |-> D(k)])

\* data = merge([lpcosts renamed] + [lp_constraint(constraint, lpcosts) renamed])
AdapterData(c, cs) ==
    LET lc == LpCosts(c)
        lp == Explicit([i \in 1..Len(cs) |-> LpConstraint(cs[i], lc)]) IN
    Merge(Explicit([n \in DataNames(Len(cs)) |->
              IF Len(n) = 1 THEN TagD(lc.data_vars[n[1]])
              ELSE lp[n[2]].data_vars[n[1]]]))

\* NegateLowerBounds leaving the production blocks as they are.
NegateLowerBoundsNoProduction(data, cs) ==
    [n \in DOMAIN data |->
        IF Len(n) = 2 /\ cs[n[2]].attrs.kind = "LOWER_BOUND" /\ n[1] # "production"
        THEN Neg(data[n]) ELSE data[n]]

\* for i, constraint in enumerate(constraints):
\*     if constraint.kind == ConstraintKind.LOWER_BOUND: data[...] = -data[...]
NegateLowerBounds(data, cs) ==
    Explicit([n \in DOMAIN data |->
        IF Len(n) = 2 /\ cs[n[2]].attrs.kind = "LOWER_BOUND"
        THEN Neg(data[n]) ELSE data[n]])

\* da.stack(x=dimseq).values of an array over the axes of dimseq.
Flattened(da, dimseq) ==
    LET idx == StackIndex(da.coords, dimseq) IN
    [p \in 1..Len(idx) |-> da.values[idx[p]]]

\* da.stack(decision=coldims).stack(constraint=rowdims)
\*   .transpose("constraint", "decision").values
Matrix(da, rowdims, coldims) ==
    LET rows == StackIndex(da.coords, rowdims)
        cols == StackIndex(da.coords, coldims) IN
    [r \in 1..Len(rows) |-> [q \in 1..Len(cols) |-> da.values[rows[r] @@ cols[q]]]]

\* concatenate(arrays, axis=0)
RECURSIVE Concatenate(_)
Concatenate(arrays) ==
    IF arrays = <<>> THEN <<>>
    ELSE Head(arrays) \o Concatenate(Tail(arrays))

\* KindIndices with the latest constraint first.
KindIndicesReversed(cs, kinds) ==
    SelectSeq([i \in 1..Len(cs) |-> Len(cs) + 1 - i],
              LAMBDA i : cs[i].attrs.kind \in kinds)

\* indices = [i for i in range(len(bs)) if constraints[i].kind in kinds]
KindIndices(cs, kinds) ==
    SelectSeq([i \in 1..Len(cs) |-> i], LAMBDA i : cs[i].attrs.kind \in kinds)

\* ExtractBA giving arrays without rows where the code gives None.
ExtractBAEmpty(data, cs, kinds) ==
    LET indices == KindIndices(cs, kinds)
        ddims(name) == Sorted(data[<<name>>].dims)
        cdims(i) == Sorted(data[<<"b", i>>].dims)
        blocks(name) ==
            Concatenate([p \in 1..Len(indices) |->
                Matrix(data[<<name, indices[p]>>], cdims(indices[p]), ddims(name))])
        capa == blocks("capacity")
        prod == blocks("production") IN
    [A |-> NdArray([r \in 1..Len(capa) |-> capa[r] \o prod[r]]),
     b |-> NdArray(Concatenate([p \in 1..Len(indices) |->
               Flattened(data[<<"b", indices[p]>>], cdims(indices[p]))]))]

\* extract_bA(*kinds)
ExtractBA(data, cs, kinds) ==
    LET indices == KindIndices(cs, kinds)
        ddims(name) == Sorted(data[<<name>>].dims)
        cdims(i) == Sorted(data[<<"b", i>>].dims)
        blocks(name) ==
            Concatenate([p \in 1..Len(indices) |->
                Matrix(data[<<name, indices[p]>>], cdims(indices[p]), ddims(name))])
        capa == blocks("capacity")
        prod == blocks("production") IN
    IF indices # <<>>
    THEN [A |-> NdArray([r \in 1..Len(capa) |-> capa[r] \o prod[r]]),
          b |-> NdArray(Concatenate([p \in 1..Len(indices) |->
                    Flattened(data[<<"b", indices[p]>>], cdims(indices[p]))]))]
    ELSE [A |-> None, b |-> None]

\* CostVector with the production costs first.
CostVectorProductionFirst(data) ==
    Flattened(data[<<"production">>], Sorted(data[<<"production">>].dims))
        \o Flattened(data[<<"capacity">>], Sorted(data[<<"capacity">>].dims))

\* c = concatenate((capacities["costs"].values, productions["costs"].values))
CostVector(data) ==
    Flattened(data[<<"capacity">>], Sorted(data[<<"capacity">>].dims))
        \o Flattened(data[<<"production">>], Sorted(data[<<"production">>].dims))

ScipyAdapter(c, cs) ==
    LET data == NegateLowerBounds(AdapterData(c, cs), cs)
        ub == ExtractBA(data, cs, {"UPPER_BOUND", "LOWER_BOUND"})
        eq == ExtractBA(data, cs, {"EQUALITY"}) IN
    [c |-> NdArray(CostVector(data)),
     A_ub |-> ub.A, b_ub |-> ub.b, A_eq |-> eq.A, b_eq |-> eq.b,
     bounds |-> <<0, None>>]

\* One call of scipy_adapter.
Adapt ==
    /\ pc = "adapt"
    /\ adapted' = ScipyAdapter(given_costs, constraints)
    /\ pc' = "adapted"
    /\ UNCHANGED <<given_costs, constraints, flipped, readapted, unified,
                   wrapVars, factoryVars, expansionVars, matrixVars>>

\* The caller changes the kind of one UPPER_BOUND constraint to LOWER_BOUND
\* and calls scipy_adapter again.
Readapt ==
    /\ pc = "adapted"
    /\ \E i \in 1..Len(constraints) :
        /\ constraints[i].attrs.kind = "UPPER_BOUND"
        /\ constraints' = [constraints EXCEPT ![i].attrs.kind = "LOWER_BOUND"]
        /\ flipped' = i
    /\ readapted' = ScipyAdapter(given_costs, constraints')
    /\ pc' = "readapted"
    /\ UNCHANGED <<given_costs, adapted, unified,
                   wrapVars, factoryVars, expansionVars, matrixVars>>

(***************************************************************************)
(* merge_lp(costs, *constraints).  The constraints are those of            *)
(* max_capacity_expansion over a selection of the replacement              *)
(* technologies of their own, in an order of their own.                    *)
(***************************************************************************)
MergeConstraints ==
    {Dataset([b |-> DataArray({Replacement}, [k \in {Replacement} |-> cs],
                              [i \in IndicesOf({Replacement},
                                               [k \in {Replacement} |-> cs]) |->
                                  i[Replacement]]),
              capacity |-> Scalar(1),
              production |-> Scalar(0)],
             [kind |-> kind]) :
        cs \in CoordinateChoices, kind \in ConstraintKind}

MergeConstraintLists(n) == UNION {[1..m -> MergeConstraints] : m \in 0..n}

MergeLp(c, cs) ==
    LET data == Merge(Explicit([n \in DataNames(Len(cs)) |->
                    IF Len(n) = 1 THEN c.data_vars[n[1]]
                    ELSE cs[n[2]].data_vars[n[1]]])) IN
    [costs |-> Dataset([capacity |-> data[<<"capacity">>],
                        production |-> data[<<"production">>]], <<>>),
     constraints |->
        [i \in 1..Len(cs) |->
            Dataset([capacity |-> data[<<"capacity", i>>],
                     production |-> data[<<"production", i>>],
                     b |-> data[<<"b", i>>]],
                    cs[i].attrs)]]

\* One call of merge_lp.
MergeCall ==
    /\ pc = "merge"
    /\ unified' = MergeLp(given_costs, constraints)
    /\ pc' = "merged"
    /\ UNCHANGED <<given_costs, constraints, adapted, flipped, readapted,
                   wrapVars, factoryVars, expansionVars, matrixVars>>

AdapterIdle ==
    /\ given_costs = Unset /\ constraints = Unset /\ adapted = Unset
    /\ flipped = Unset /\ readapted = Unset /\ unified = Unset

(***************************************************************************)
(* The specifications, one per part of the pipeline.                       *)
(***************************************************************************)
InitWrap ==
    /\ pc = "wrap"
    /\ generated \in GeneratorOutputs
    /\ returned = Unset
    /\ FactoryIdle /\ ExpansionIdle /\ MatrixIdle /\ AdapterIdle

NextWrap == Decorated

SpecWrap == InitWrap /\ [][NextWrap]_vars

InitFactory ==
    /\ pc = "factory"
    /\ \/ settings \in TextSettings
       \/ settings \in MappingSettings
       \/ settings \in SequenceSettings(MaxEntries)
    /\ shared \in Dicts(SharedKeys, ParamVals)
    /\ closure = Unset
    /\ built = Unset
    /\ WrapIdle /\ ExpansionIdle /\ MatrixIdle /\ AdapterIdle

NextFactory == Factory \/ Build

SpecFactory == InitFactory /\ [][NextFactory]_vars

InitExpansion ==
    /\ pc = "expansion"
    /\ techs \in TechLimits
    /\ capacity \in Capacities
    /\ forecast \in 1..MaxForecast
    /\ maxcap = Unset
    /\ WrapIdle /\ FactoryIdle /\ MatrixIdle /\ AdapterIdle

NextExpansion == MaxCapacityExpansion

SpecExpansion == InitExpansion /\ [][NextExpansion]_vars

InitMatrix ==
    /\ pc = "compile"
    /\ lpb \in Shapes
    /\ lpconstraint \in DataArrays
    /\ lpcosts \in Shapes
    /\ lpmatrix = Unset
    /\ WrapIdle /\ FactoryIdle /\ ExpansionIdle /\ AdapterIdle

NextMatrix == CompileBlock

SpecMatrix == InitMatrix /\ [][NextMatrix]_vars

\* lp_constraint_matrix called with tensors whose coordinate systems were
\* not unified.
MisalignedShapes ==
    UNION {{Shape(ks, cs) : cs \in [ks -> CoordinateChoices]} :
              ks \in SUBSET AxisNames}

InitMisaligned ==
    /\ pc = "compile"
    /\ lpb \in MisalignedShapes
    /\ lpconstraint \in DataArrays
    /\ lpcosts \in MisalignedShapes
    /\ lpmatrix = Unset
    /\ WrapIdle /\ FactoryIdle /\ ExpansionIdle /\ AdapterIdle

NextMisaligned == CompileBlock

SpecMisaligned == InitMisaligned /\ [][NextMisaligned]_vars


InitAdapter ==
    /\ pc = "adapt"
    /\ given_costs = Arange
    /\ constraints \in ConstraintLists(MaxConstraints)
    /\ adapted = Unset /\ flipped = Unset /\ readapted = Unset /\ unified = Unset
    /\ WrapIdle /\ FactoryIdle /\ ExpansionIdle /\ MatrixIdle

NextAdapter == Adapt \/ Readapt

SpecAdapter == InitAdapter /\ [][NextAdapter]_vars

InitMerge ==
    /\ pc = "merge"
    /\ given_costs = LpCosts(Arange)
    /\ constraints \in MergeConstraintLists(MaxConstraints)
    /\ adapted = Unset /\ flipped = Unset /\ readapted = Unset /\ unified = Unset
    /\ WrapIdle /\ FactoryIdle /\ ExpansionIdle /\ MatrixIdle

NextMerge == MergeCall

SpecMerge == InitMerge /\ [][NextMerge]_vars

(***************************************************************************)
(* The claims about the standardizing wrapper.                             *)
(***************************************************************************)
SuppliesCoefficient ==
    \/ "capacity" \in DOMAIN generated.data_vars
    \/ "production" \in DOMAIN generated.data_vars

\* C1: when the generator output defines at least one of capacity and
\* production, decorated returns a constraint with capacity, production, b
\* and kind all defined: a data variable the generator did not supply is the
\* scalar 0, a missing kind is UPPER_BOUND, and what the generator supplied
\* keeps its value.
C1_WrapperDefinesAllFields ==
    (pc = "wrapped" /\ SuppliesCoefficient) =>
        /\ returned.raised = "none"
        /\ DOMAIN returned.value.data_vars = {"capacity", "production", "b"}
        /\ DOMAIN returned.value.attrs = {"kind"}
        /\ \A n \in {"capacity", "production", "b"} :
              returned.value.data_vars[n] =
                 IF n \in DOMAIN generated.data_vars
                 THEN generated.data_vars[n] ELSE 0
        /\ returned.value.attrs["kind"] =
              IF "kind" \in DOMAIN generated.attrs
              THEN generated.attrs["kind"] ELSE "UPPER_BOUND"

\* A generator that supplied production alone, without b and kind, wrapped.
C1_Witness ==
    /\ pc = "wrapped"
    /\ DOMAIN generated.data_vars = {"production"}
    /\ DOMAIN generated.attrs = {}
    /\ returned.raised = "none"
    /\ returned.value.data_vars["b"] = 0

ConfiguredEntries ==
    IF settings.form = "Text" THEN <<[name |-> settings.value, params |-> <<>>]>>
    ELSE IF settings.form = "Mapping"
    THEN <<[name |-> settings.value["name"],
            params |-> [k \in DOMAIN settings.value \ {"name"} |-> settings.value[k]]]>>
    ELSE [i \in DOMAIN settings.value |->
            [name |-> settings.value[i]["name"],
             params |-> [k \in DOMAIN settings.value[i] \ {"name"} |->
                            settings.value[i][k]]]]

ConfiguredNames == {ConfiguredEntries[i].name : i \in DOMAIN ConfiguredEntries}

\* C3: for each of the three forms of configuration whose names are all
\* registered, the callable factory returned gives back a list holding one
\* Constraint per configured entry, in configuration order.
C3_FactoryBuildsOnePerEntry ==
    (pc = "built" /\ ConfiguredNames \subseteq CONSTRAINTS) =>
        /\ built.raised = "none"
        /\ Len(built.value) = Len(ConfiguredEntries)
        /\ \A i \in DOMAIN ConfiguredEntries :
              built.value[i] =
                 Standardize(GeneratorDataset(ConfiguredEntries[i].name)).value

\* C4: when the configuration names a constraint that is not registered, the
\* call fails with a lookup error carrying the missing name and returns no
\* list.
C4_UnknownNameLookupError ==
    (pc = "built" /\ ~(ConfiguredNames \subseteq CONSTRAINTS)) =>
        /\ built.raised = "KeyError"
        /\ built.arg \in ConfiguredNames \ CONSTRAINTS
        /\ built.value = Unset


(***************************************************************************)
(* The claims about max_capacity_expansion.                                *)
(***************************************************************************)
Min2(x, y) == IF x <= y THEN x ELSE y
Max0(x) == IF x >= 0 THEN x ELSE 0

\* The existing capacity of the replacement technology at the current and
\* at the forecast year (zero for a technology the assets do not hold).
CurrentCapacity == IF capacity.owned THEN capacity.year ELSE 0
ForecastCapacity == IF capacity.owned THEN capacity.forecast_year ELSE 0

\* The three bounds as the claims name them.
LimitHeadroom == techs.total_capacity_limit - ForecastCapacity
GrowthHeadroom ==
    CurrentCapacity * (techs.max_capacity_growth * forecast + 1) - ForecastCapacity
AdditionBound == techs.max_capacity_addition * forecast

ExpansionResult == maxcap.value.data_vars["b"]

\* C5: the right-hand side b is never negative, for all non-negative limits
\* and capacities.
C5_ExpansionNonNegative ==
    pc = "expanded" => (maxcap.raised = "none" /\ ExpansionResult >= 0)

\* C6, as stated: with existing capacity > 0, b is the minimum of the limit
\* headroom, the growth headroom and the addition bound, the capacity
\* coefficient is 1 and the kind UPPER_BOUND.
C6_MinOfThreeUnclipped ==
    (pc = "expanded" /\ CurrentCapacity > 0) =>
        /\ ExpansionResult = Min2(LimitHeadroom, Min2(GrowthHeadroom, AdditionBound))
        /\ maxcap.value.data_vars["capacity"] = 1
        /\ maxcap.value.attrs["kind"] = "UPPER_BOUND"

\* C6, amended: with existing capacity > 0, b is the minimum of the limit
\* headroom clipped at zero, the growth headroom and the addition bound; the
\* capacity coefficient is 1 and the kind UPPER_BOUND.
C6_MinOfThreeClipped ==
    (pc = "expanded" /\ CurrentCapacity > 0) =>
        /\ ExpansionResult =
              Min2(Max0(LimitHeadroom), Min2(GrowthHeadroom, AdditionBound))
        /\ maxcap.value.data_vars["capacity"] = 1
        /\ maxcap.value.attrs["kind"] = "UPPER_BOUND"

\* Existing capacity > 0, the forecast-year capacity above the limit and the
\* other two bounds positive: the clipped headroom binds.
C6_Witness ==
    /\ pc = "expanded"
    /\ CurrentCapacity > 0
    /\ LimitHeadroom < 0
    /\ GrowthHeadroom > 0
    /\ AdditionBound > 0
    /\ ExpansionResult = 0

\* C7, as stated: with existing capacity zero, b is the addition bound,
\* whatever the limit, the growth rate and the forecast-year capacity.
C7_ZeroCapacityAdditionOnly ==
    (pc = "expanded" /\ CurrentCapacity = 0) => ExpansionResult = AdditionBound

\* C7, amended: with existing capacity zero, b is the minimum of the
\* addition bound and the limit headroom clipped at zero, whatever the
\* growth rate.
C7_ZeroCapacityAdditionAndLimit ==
    (pc = "expanded" /\ CurrentCapacity = 0) =>
        ExpansionResult = Min2(AdditionBound, Max0(LimitHeadroom))

\* Existing capacity zero, a growth rate set, and a limit headroom below the
\* addition bound.
C7_Witness ==
    /\ pc = "expanded"
    /\ CurrentCapacity = 0
    /\ techs.max_capacity_growth > 0
    /\ Max0(LimitHeadroom) < AdditionBound
    /\ ExpansionResult = Max0(LimitHeadroom)


(***************************************************************************)
(* The claims about lp_constraint_matrix.                                  *)
(***************************************************************************)
DiagDims == lpb.dims \cap lpcosts.dims

\* An index of the block puts its row and its column on the diagonal when
\* they agree on every axis b and lpcosts share.
OnDiagonal(i) == \A k \in DiagDims : i[C(k)] = i[D(k)]

IsScalar(da) == da.dims = {}
ScalarValue(da) == da.values[<<>>]

\* C8: the axes of the block are exactly the d-tagged axes of lpcosts and the
\* c-tagged axes of b, for every combination of axes of b, the coefficient
\* and lpcosts.
C8_BlockAxes ==
    pc = "compiled" =>
        lpmatrix.dims = {D(k) : k \in lpcosts.dims} \cup {C(k) : k \in lpb.dims}

\* A 0-axis b against a coefficient and an lpcosts that differ in their axes.
C8_Witness ==
    /\ pc = "compiled"
    /\ lpb.dims = {}
    /\ lpconstraint.dims = {<<"asset">>}
    /\ lpcosts.dims = {<<"asset">>, <<"replacement">>}
    /\ lpmatrix.dims = {<<"d", "asset">>, <<"d", "replacement">>}

\* C9, as stated: with a 0-axis coefficient every entry of the block equals
\* that scalar, for every b and every lpcosts.
C9_ScalarUniform ==
    (pc = "compiled" /\ IsScalar(lpconstraint)) =>
        \A i \in Indices(lpmatrix) : lpmatrix.values[i] = ScalarValue(lpconstraint)

\* C9, amended: with a 0-axis coefficient an entry of the block equals that
\* scalar where row and column agree on every axis b and lpcosts share, and
\* 0 elsewhere; the block is uniform when they share no axis.
C9_ScalarOnDiagonal ==
    (pc = "compiled" /\ IsScalar(lpconstraint)) =>
        /\ \A i \in Indices(lpmatrix) :
              lpmatrix.values[i] =
                 IF OnDiagonal(i) THEN ScalarValue(lpconstraint) ELSE 0
        /\ DiagDims = {} =>
              \A i \in Indices(lpmatrix) :
                 lpmatrix.values[i] = ScalarValue(lpconstraint)

\* A non-zero scalar coefficient against b and lpcosts sharing an axis: the
\* block holds the scalar and a zero.
C9_Witness ==
    /\ pc = "compiled"
    /\ IsScalar(lpconstraint)
    /\ ScalarValue(lpconstraint) # 0
    /\ DiagDims # {}
    /\ \E i, j \in Indices(lpmatrix) :
          /\ lpmatrix.values[i] = ScalarValue(lpconstraint)
          /\ lpmatrix.values[j] = 0

\* C10: a coefficient that is -1 everywhere over the axes of b and of
\* lpcosts compiles to a block that, stacked, is square and the negative
\* identity matrix.
C10_NegativeIdentity ==
    (/\ pc = "compiled"
     /\ lpconstraint.dims = lpb.dims
     /\ lpconstraint.dims = lpcosts.dims
     /\ \A i \in Indices(lpconstraint) : lpconstraint.values[i] = -1) =>
        LET stacked == Stacked(lpmatrix) IN
        /\ \A p \in DOMAIN stacked : Len(stacked[p]) = Len(stacked)
        /\ \A p \in DOMAIN stacked : \A q \in DOMAIN stacked[p] :
              stacked[p][q] = IF p = q THEN -1 ELSE 0

\* The -1 coefficient over both axes, compiled to a 4-axis block.
C10_Witness ==
    /\ pc = "compiled"
    /\ lpconstraint.dims = AxisNames
    /\ lpb.dims = AxisNames
    /\ lpcosts.dims = AxisNames
    /\ \A i \in Indices(lpconstraint) : lpconstraint.values[i] = -1
    /\ Len(Stacked(lpmatrix)) = AxisLen * AxisLen


\* C19: b never exceeds the addition bound nor the limit headroom clipped at
\* zero, whether or not the existing capacity is zero.
C19_ExpansionBelowBounds ==
    pc = "expanded" =>
        /\ maxcap.raised = "none"
        /\ ExpansionResult <= AdditionBound
        /\ ExpansionResult <= Max0(LimitHeadroom)

\* Existing capacity > 0 and a growth headroom above both other bounds.
C19_Witness ==
    /\ pc = "expanded"
    /\ CurrentCapacity > 0
    /\ GrowthHeadroom > AdditionBound
    /\ GrowthHeadroom > Max0(LimitHeadroom)
    /\ AdditionBound > 0
    /\ ExpansionResult = Min2(AdditionBound, Max0(LimitHeadroom))

\* The axes of b that neither the coefficient nor lpcosts holds.
BOnlyDims == (lpb.dims \ lpconstraint.dims) \ lpcosts.dims

\* Two indices that agree on every axis but k.
AgreeBut(i, j, k) == \A a \in DOMAIN i : a # k => i[a] = j[a]

\* C12, as stated: when b has an axis in neither the coefficient nor lpcosts
\* and that axis has more than one value, no block is returned.
C12_BOnlyAxisRejected ==
    ~(pc = "compiled" /\ \E k \in BOnlyDims : Len(lpb.coords[k]) > 1)

\* C12, amended: an axis of b in neither the coefficient nor lpcosts,
\* whatever the number of its values, is added to the block as c(axis) with
\* the coordinate values of b, and the block is replicated along it.
C12_BOnlyAxisReplicated ==
    pc = "compiled" =>
        \A k \in BOnlyDims :
            /\ C(k) \in lpmatrix.dims
            /\ lpmatrix.coords[C(k)] = lpb.coords[k]
            /\ \A i, j \in Indices(lpmatrix) :
                  AgreeBut(i, j, C(k)) => lpmatrix.values[i] = lpmatrix.values[j]

\* A scalar coefficient 2 against a b that alone holds the axis replacement,
\* which has more than one value.
C12_Witness ==
    /\ pc = "compiled"
    /\ IsScalar(lpconstraint)
    /\ ScalarValue(lpconstraint) = 2
    /\ lpb.dims = {<<"replacement">>}
    /\ lpcosts.dims = {<<"asset">>}
    /\ Len(lpmatrix.coords[<<"c", "replacement">>]) > 1
    /\ \A i \in Indices(lpmatrix) : lpmatrix.values[i] = 2

\* The coefficient summed over the axes neither b nor lpcosts holds, read at
\* the coordinates an index of the block gives its other axes.
CoefficientAt(i) ==
    SumOver({j \in Indices(lpconstraint) :
                \A k \in lpconstraint.dims :
                    /\ k \in lpcosts.dims => j[k] = i[D(k)]
                    /\ (k \in lpb.dims /\ k \notin lpcosts.dims) => j[k] = i[C(k)]},
            lpconstraint.values)

\* C18: an entry of the block is 0 when its row and column differ on an axis
\* b and lpcosts share, and otherwise the coefficient summed over the axes in
\* neither, read at the coordinates the row and the column give.
C18_BlockEntries ==
    pc = "compiled" =>
        /\ lpmatrix.dims = {D(k) : k \in lpcosts.dims} \cup {C(k) : k \in lpb.dims}
        /\ \A i \in Indices(lpmatrix) :
              lpmatrix.values[i] = IF OnDiagonal(i) THEN CoefficientAt(i) ELSE 0

\* A coefficient over both axes, asset summed out and replacement diagonal:
\* the block holds a sum of two different entries and a zero.
C18_Witness ==
    /\ pc = "compiled"
    /\ lpconstraint.dims = AxisNames
    /\ lpb.dims = {<<"replacement">>}
    /\ lpcosts.dims = {<<"replacement">>}
    /\ \E i, j \in Indices(lpmatrix) :
          /\ OnDiagonal(i) /\ lpmatrix.values[i] = 1
          /\ ~OnDiagonal(j) /\ lpmatrix.values[j] = 0

\* C11: when an axis of both b and lpcosts holds coordinate values that
\* differ in order or in content between the two, lp_constraint_matrix fails
\* and returns no block.
C11_MisalignedDiagonalRejected ==
    ~(/\ pc = "compiled"
      /\ \E k \in DiagDims : lpb.coords[k] # lpcosts.coords[k])

(***************************************************************************)
(* The claims about scipy_adapter.  The problem of a constraint list is    *)
(* described independently of the adapter: its decision variables and its  *)
(* rows are listed one by one, and the coefficient of a row for a variable *)
(* is read in the constraint's compiled block.                             *)
(***************************************************************************)
Solved == pc \in {"adapted", "readapted"}

\* The result of the latest call, for the constraints as they are now.
Problem == IF pc = "adapted" THEN adapted ELSE readapted

Inequalities == {"UPPER_BOUND", "LOWER_BOUND"}
Equalities == {"EQUALITY"}

HasKind(kinds) == \E i \in 1..Len(constraints) : constraints[i].attrs.kind \in kinds

IsMatrix(a) ==
    /\ ~a.none
    /\ Len(a.values) > 0
    /\ \A r \in DOMAIN a.values :
        /\ Len(a.values[r]) = Len(a.values[1])
        /\ \A q \in DOMAIN a.values[r] : a.values[r][q] \in Int

IsVector(b) ==
    /\ ~b.none
    /\ \A r \in DOMAIN b.values : b.values[r] \in Int

\* C14: A_ub and b_ub are None exactly when no constraint is an upper or a
\* lower bound, A_eq and b_eq are None exactly when no constraint is an
\* equality; a pair that is not None is a 2-D matrix and a 1-D vector.
C14_NoneExactlyWhenGroupEmpty ==
    Solved =>
        /\ Problem.A_ub.none <=> ~HasKind(Inequalities)
        /\ Problem.b_ub.none <=> ~HasKind(Inequalities)
        /\ Problem.A_eq.none <=> ~HasKind(Equalities)
        /\ Problem.b_eq.none <=> ~HasKind(Equalities)
        /\ HasKind(Inequalities) => IsMatrix(Problem.A_ub) /\ IsVector(Problem.b_ub)
        /\ HasKind(Equalities) => IsMatrix(Problem.A_eq) /\ IsVector(Problem.b_eq)

C14_Witness ==
    /\ pc = "adapted"
    /\ HasKind(Inequalities) /\ ~HasKind(Equalities)
    /\ IsMatrix(adapted.A_ub) /\ IsVector(adapted.b_ub)
    /\ adapted.A_eq = None /\ adapted.b_eq = None

\* The decision variables, in order: one capacity variable per asset and
\* replacement, then one production variable per asset, commodity and
\* replacement; the later axis varies fastest.
CapacityVariables ==
    StackIndex([k \in {D(Asset), D(Replacement)} |-> Coordinate],
               <<D(Asset), D(Replacement)>>)

ProductionVariables ==
    StackIndex([k \in {D(Asset), D(Commodity), D(Replacement)} |-> Coordinate],
               <<D(Asset), D(Commodity), D(Replacement)>>)

DecisionVariables ==
    [j \in 1..Len(CapacityVariables) |->
        [var |-> "capacity", at |-> CapacityVariables[j]]]
    \o [j \in 1..Len(ProductionVariables) |->
        [var |-> "production", at |-> ProductionVariables[j]]]

\* The cost of a decision variable: costs at its asset and replacement for a
\* capacity variable, zero for a production variable.
CostOf(v) ==
    IF v.var = "capacity"
    THEN given_costs.values[[k \in AxisNames |-> v.at[D(k)]]]
    ELSE 0

\* The rows of the constraints from position i on whose kind is in kinds: in
\* the order of the list, one row per combination of the values of the axes
\* of b, the later axis (in sorted order) varying fastest.
RECURSIVE RowsFrom(_, _)
RowsFrom(i, kinds) ==
    IF i > Len(constraints) THEN <<>>
    ELSE IF constraints[i].attrs.kind \notin kinds THEN RowsFrom(i + 1, kinds)
    ELSE LET b == constraints[i].data_vars.b
             at == StackIndex([n \in {C(k) : k \in b.dims} |-> b.coords[Tail(n)]],
                              Sorted({C(k) : k \in b.dims})) IN
         [q \in 1..Len(at) |-> [constraint |-> i, at |-> at[q]]]
             \o RowsFrom(i + 1, kinds)

Sign(i) == IF constraints[i].attrs.kind = "LOWER_BOUND" THEN 0 - 1 ELSE 1

\* The compiled blocks of every constraint of the list.
Compiled ==
    Explicit([i \in 1..Len(constraints) |->
                 LpConstraint(constraints[i], LpCosts(given_costs))])

\* The coefficient of a row for a decision variable, read in the compiled
\* blocks, and its right-hand side.
RowCoefficient(blocks, row, v) ==
    Sign(row.constraint)
        * blocks[row.constraint].data_vars[v.var].values[row.at @@ v.at]

RowBound(row) ==
    Sign(row.constraint)
        * constraints[row.constraint].data_vars.b
              .values[[k \in constraints[row.constraint].data_vars.b.dims |->
                          row.at[C(k)]]]

ColumnsAgree(A, kinds) ==
    ~A.none =>
        LET rows == RowsFrom(1, kinds)
            blocks == Compiled IN
        \A r \in DOMAIN A.values :
            /\ Len(A.values[r]) = Len(DecisionVariables)
            /\ r \in DOMAIN rows
            /\ \A j \in DOMAIN A.values[r] :
                   A.values[r][j] = RowCoefficient(blocks, rows[r],
                                                   DecisionVariables[j])

\* C15: the decision columns are the capacity variables followed by the
\* production variables: c has one entry per variable, the cost of that
\* variable, and column j of A_ub and of A_eq holds the coefficients of the
\* variable entry j of c is the cost of.
C15_ColumnsCapacityThenProduction ==
    Solved =>
        /\ Len(Problem.c.values)
              = Cardinality(Indices(LpCosts(given_costs).data_vars.capacity))
                + Cardinality(Indices(LpCosts(given_costs).data_vars.production))
        /\ Len(Problem.c.values) = Len(DecisionVariables)
        /\ \A j \in DOMAIN Problem.c.values :
               Problem.c.values[j] = CostOf(DecisionVariables[j])
        /\ ColumnsAgree(Problem.A_ub, Inequalities)
        /\ ColumnsAgree(Problem.A_eq, Equalities)

C15_Witness ==
    /\ pc = "adapted"
    /\ ~adapted.A_ub.none /\ ~adapted.A_eq.none
    /\ \E r \in DOMAIN adapted.A_ub.values :
        /\ \E j \in DOMAIN adapted.c.values :
            /\ DecisionVariables[j].var = "production"
            /\ adapted.A_ub.values[r][j] # 0
        /\ \E j \in DOMAIN adapted.c.values :
            /\ DecisionVariables[j].var = "capacity"
            /\ adapted.c.values[j] # 0
            /\ adapted.A_ub.values[r][j] # 0

RowsAgree(A, b, kinds) ==
    ~A.none =>
        LET rows == RowsFrom(1, kinds)
            blocks == Compiled IN
        /\ ~b.none
        /\ Len(A.values) = Len(rows)
        /\ Len(b.values) = Len(rows)
        /\ \A i \in 1..Len(constraints) :
               constraints[i].attrs.kind \in kinds =>
                   Cardinality({r \in DOMAIN rows : rows[r].constraint = i})
                       = Cardinality(Indices(constraints[i].data_vars.b))
        /\ \A r, s \in DOMAIN rows :
               r < s => rows[r].constraint <= rows[s].constraint
        /\ \A r \in DOMAIN rows :
            /\ b.values[r] = RowBound(rows[r])
            /\ \A j \in DOMAIN DecisionVariables :
                   A.values[r][j]
                       = RowCoefficient(blocks, rows[r], DecisionVariables[j])

\* C16: within A_ub/b_ub and within A_eq/b_eq the row blocks follow the
\* order of the constraint list, a constraint has one row per combination of
\* the values of the axes of its b, the matrix has as many rows as the
\* vector has entries, and row r and entry r belong to the same constraint
\* at the same coordinates of b.
C16_RowsInListOrder ==
    Solved =>
        /\ RowsAgree(Problem.A_ub, Problem.b_ub, Inequalities)
        /\ RowsAgree(Problem.A_eq, Problem.b_eq, Equalities)

C16_Witness ==
    /\ pc = "adapted"
    /\ Len(constraints) = 2
    /\ constraints[1].attrs.kind \in Inequalities
    /\ constraints[2].attrs.kind \in Inequalities
    /\ constraints[1].data_vars.b.dims # constraints[2].data_vars.b.dims
    /\ Len(adapted.b_ub.values)
          = Cardinality(Indices(constraints[1].data_vars.b))
            + Cardinality(Indices(constraints[2].data_vars.b))
    /\ \E r \in DOMAIN adapted.b_ub.values : adapted.b_ub.values[r] # 0

\* C13: when the kind of one constraint is changed from UPPER_BOUND to
\* LOWER_BOUND and scipy_adapter is called again, the rows of that
\* constraint in A_ub and b_ub are the negation of what they were, the other
\* rows of A_ub and b_ub are what they were, and so are A_eq, b_eq and c.
C13_FlipNegatesOwnRows ==
    pc = "readapted" =>
        LET rows == RowsFrom(1, Inequalities)
            sign(r) == IF rows[r].constraint = flipped THEN 0 - 1 ELSE 1 IN
        /\ readapted.c = adapted.c
        /\ readapted.A_eq = adapted.A_eq
        /\ readapted.b_eq = adapted.b_eq
        /\ ~adapted.A_ub.none /\ ~readapted.A_ub.none
        /\ ~adapted.b_ub.none /\ ~readapted.b_ub.none
        /\ Len(adapted.A_ub.values) = Len(rows)
        /\ Len(readapted.A_ub.values) = Len(rows)
        /\ Len(adapted.b_ub.values) = Len(rows)
        /\ Len(readapted.b_ub.values) = Len(rows)
        /\ \A r \in DOMAIN rows :
            /\ readapted.b_ub.values[r] = sign(r) * adapted.b_ub.values[r]
            /\ Len(readapted.A_ub.values[r]) = Len(adapted.A_ub.values[r])
            /\ \A j \in DOMAIN adapted.A_ub.values[r] :
                   readapted.A_ub.values[r][j]
                       = sign(r) * adapted.A_ub.values[r][j]

C13_Witness ==
    /\ pc = "readapted"
    /\ \E i \in 1..Len(constraints) :
           i # flipped /\ constraints[i].attrs.kind \in Inequalities
    /\ \E r \in DOMAIN adapted.b_ub.values : adapted.b_ub.values[r] # 0
    /\ LET rows == RowsFrom(1, Inequalities) IN
       \E r \in DOMAIN rows :
        /\ rows[r].constraint = flipped
        /\ \E j \in DOMAIN DecisionVariables :
            /\ DecisionVariables[j].var = "production"
            /\ readapted.A_ub.values[r][j] # adapted.A_ub.values[r][j]

(***************************************************************************)
(* The claims about merge_lp.                                              *)
(***************************************************************************)
\* The arrays handed to merge_lp and the arrays it returns, by name.
MergeInputs ==
    [n \in DataNames(Len(constraints)) |->
        IF Len(n) = 1 THEN given_costs.data_vars[n[1]]
        ELSE constraints[n[2]].data_vars[n[1]]]

MergeOutputs ==
    [n \in DataNames(Len(unified.constraints)) |->
        IF Len(n) = 1 THEN unified.costs.data_vars[n[1]]
        ELSE unified.constraints[n[2]].data_vars[n[1]]]

\* Every axis has the same coordinate values, in the same order, in all the
\* inputs that hold it.
CoordinatesAgree ==
    \A n, m \in DOMAIN MergeInputs :
        \A k \in MergeInputs[n].dims \cap MergeInputs[m].dims :
            MergeInputs[n].coords[k] = MergeInputs[m].coords[k]

\* C17 as stated: merge_lp returns the cost structure and the constraints it
\* was given, values, coordinates and kind, also when two inputs hold
\* different coordinate values on an axis of the same name.
C17_MergeReturnsInputs ==
    pc = "merged" =>
        /\ unified.costs = given_costs
        /\ Len(unified.constraints) = Len(constraints)
        /\ \A i \in 1..Len(constraints) : unified.constraints[i] = constraints[i]

\* C17 amended: merge_lp returns as many constraints as it was given, in the
\* same order and of the same kind; every array keeps its axes and its
\* values at the coordinates it had; the arrays come back with the
\* coordinates they had exactly when the inputs agree on the coordinates of
\* every axis, and otherwise hold the sorted union of the coordinate values,
\* with no value at the coordinates they did not have.
C17_MergeReturnsAlignedInputs ==
    pc = "merged" =>
        /\ Len(unified.constraints) = Len(constraints)
        /\ \A i \in 1..Len(constraints) :
               unified.constraints[i].attrs = constraints[i].attrs
        /\ \A n \in DOMAIN MergeInputs :
            /\ MergeOutputs[n].dims = MergeInputs[n].dims
            /\ MergeOutputs[n].values = MergeInputs[n].values
            /\ \A k \in MergeInputs[n].dims :
                   Range(MergeInputs[n].coords[k]) \subseteq Range(MergeOutputs[n].coords[k])
        /\ CoordinatesAgree <=>
               \A n \in DOMAIN MergeInputs :
                   MergeOutputs[n].coords = MergeInputs[n].coords
        /\ ~CoordinatesAgree =>
               \A n \in DOMAIN MergeInputs : \A k \in MergeInputs[n].dims :
                   \A p, q \in DOMAIN MergeOutputs[n].coords[k] :
                       p < q => MergeOutputs[n].coords[k][p]
                                    < MergeOutputs[n].coords[k][q]

C17_Witness ==
    /\ pc = "merged"
    /\ Len(constraints) = 2
    /\ ~CoordinatesAgree
    /\ unified.constraints[1].data_vars.b.coords # constraints[1].data_vars.b.coords
    /\ unified.constraints[2].data_vars.b.coords = constraints[2].data_vars.b.coords
    /\ unified.constraints[1].attrs.kind # unified.constraints[2].attrs.kind

====
